---- MODULE Spec2Model ----
(***************************************************************************)
(* The live-DOM translation engine of EhSyringe                            *)
(* (src/src/plugin/syringe/index.ts): the tag node registry (TagNodeRef),  *)
(* the dictionary refresh (Syringe.updateTagMap), the configuration        *)
(* handling and the mutation pump, as one state machine.                   *)
(*                                                                         *)
(* Strings are sequences of one-character strings.  An optional value is   *)
(* the empty tuple (absent / undefined) or a one-element tuple.            *)
(***************************************************************************)
EXTENDS Integers, Sequences, FiniteSets, TLC

\* ------------------------------------------------------------------ bounds
NumElems == 2
MaxEvents == 2
MaxStrLen == 6

\* ------------------------------------------------------------ basic values
None == <<>>
Some(x) == <<x>>
IsSome(o) == o # <<>>
Get(o) == o[1]

Elems == 1..NumElems
Alphabet == {"t", "a", "_", ":"}
Strs == UNION {[1..n -> Alphabet] : n \in 0..MaxStrLen}

\* ------------------------------------------------ string helpers (JS String)
\* index of the first ':' of s, 0 when there is none
RECURSIVE ColonFrom(_, _)
ColonFrom(s, i) ==
    IF i > Len(s) THEN 0 ELSE IF s[i] = ":" THEN i ELSE ColonFrom(s, i + 1)

FirstColon(s) == ColonFrom(s, 1)

\* s.split(':')[0]
SplitFirst(s) ==
    IF FirstColon(s) = 0 THEN s ELSE SubSeq(s, 1, FirstColon(s) - 1)

\* s.split(':')[1]: undefined when s holds no ':'
SplitSecond(s) ==
    IF FirstColon(s) = 0
    THEN None
    ELSE Some(SplitFirst(SubSeq(s, FirstColon(s) + 1, Len(s))))

\* id.startsWith('ta_') ? id.slice(3) : id
StripPrefix(id) ==
    IF Len(id) >= 3 /\ SubSeq(id, 1, 3) = <<"t", "a", "_">>
    THEN SubSeq(id, 4, Len(id))
    ELSE id

\* id.replace(/_/gi, ' ')
ReplaceUnderscores(s) == [i \in 1..Len(s) |-> IF s[i] = "_" THEN " " ELSE s[i]]

\* Tagging.fullKey: 'namespace:key', the bare key for the default (empty)
\* namespace, and nothing for a tag without key
fullKey(tag) ==
    IF tag.key = None \/ Get(tag.key) = <<>>
    THEN <<>>
    ELSE IF tag.namespace = <<>>
         THEN Get(tag.key)
         ELSE tag.namespace \o <<":">> \o Get(tag.key)

\* ResolveTag with the 'ta_' prefix left in place
ResolveTag_KeepPrefix(aTitle, aId) ==
    IF aTitle # <<>>
    THEN Some([namespace |-> SplitFirst(aTitle), key |-> SplitSecond(aTitle)])
    ELSE IF aId # <<>>
         THEN LET id == ReplaceUnderscores(aId)
                  namespace == SplitFirst(id)
                  key == SplitSecond(id)
              IN  IF key # None /\ Get(key) # <<>>
                  THEN Some([namespace |-> namespace, key |-> key])
                  ELSE Some([namespace |-> <<>>, key |-> Some(namespace)])
         ELSE None

\* TagNodeRef.create, lines 33-47: the tag handed to fullKey, None when
\* neither title nor id is set
ResolveTag(aTitle, aId) ==
    IF aTitle # <<>>
    THEN Some([namespace |-> SplitFirst(aTitle), key |-> SplitSecond(aTitle)])
    ELSE IF aId # <<>>
         THEN LET id == ReplaceUnderscores(StripPrefix(aId))
                  namespace == SplitFirst(id)
                  key == SplitSecond(id)
              IN  IF key # None /\ Get(key) # <<>>
                  THEN Some([namespace |-> namespace, key |-> key])
                  ELSE Some([namespace |-> <<>>, key |-> Some(namespace)])
         ELSE None

\* fullKeyCandidate of TagNodeRef.create: the empty string stands for a falsy
\* candidate (undefined or '')
FullKeyCandidate(aTitle, aId) ==
    IF ResolveTag(aTitle, aId) = None
    THEN <<>>
    ELSE fullKey(Get(ResolveTag(aTitle, aId)))

\* ------------------------------------------------------------- dictionaries
K1 == <<"a", ":", "t">>
K2 == <<"t", " ", "a">>
FullKeys == {K1, K2}
LA == <<"A">>
LB == <<"B", "#">>

\* the dictionary the provider serves under fingerprint v; the empty label
\* stands for a key the dictionary does not hold
DictOf(v) ==
    CASE v % 3 = 1 -> (K1 :> LA @@ K2 :> LB)
      [] v % 3 = 2 -> (K1 :> <<>> @@ K2 :> LA)
      [] OTHER     -> (K1 :> LB @@ K2 :> <<>>)

\* the 'get-tag-map' response for fingerprint v: each key with its entry
ProviderData(v) == [k \in DOMAIN DictOf(v) |-> [name |-> DictOf(v)[k], intro |-> k]]

\* lines 220-223: tagMap[key] = data.map[key].name
NamesOf(map) == [k \in DOMAIN map |-> map[k].name]

\* tagMap[fullKey]
Lookup(map, key) == IF key \in DOMAIN map THEN map[key] ELSE <<>>

\* Tagging.markImagesAndEmoji: expands the inline image markup of a label
markImagesAndEmoji(value) ==
    [i \in 1..Len(value) |-> IF value[i] = "#" THEN "I" ELSE value[i]]

Configs == [translateTag : BOOLEAN, translateUi : BOOLEAN]

\* --------------------------------------------------------- the page's nodes
\* The engine runs on one of three pages (Spec on the first, SpecPages on the
\* others); a page gives each of its elements one of five shapes, each with a
\* single text child:
\*   1  <div class="gt" title="a:t">a:t</div>
\*   2  <span title="tt">tt</span>               outside any tag container
\*   3  <div class="gt"><a id="ta_t_a">t a</a></div>
\*   4  <div class="gt"><a>aa</a></div>          neither title nor id
\*   5  <div class="gt"><a id="ta_a:t">t</a></div>
VARIABLE page

\* the shapes of the elements of each page, in document order (repeating)
PageShapes == << <<1, 2, 3, 4, 5>>, <<4, 5, 1, 2, 3>>, <<3, 1, 5, 4, 2>> >>
Pages == DOMAIN PageShapes

Shape(e) == PageShapes[page][((e - 1) % 5) + 1]

NodeName(e) ==
    CASE Shape(e) = 1 -> "DIV" [] Shape(e) = 2 -> "SPAN" [] OTHER -> "A"

InContainer(e) == Shape(e) # 2

AutoComplete(e) == FALSE

ElemId(e) ==
    CASE Shape(e) = 3 -> <<"t", "a", "_", "t", "_", "a">>
      [] Shape(e) = 5 -> <<"t", "a", "_", "a", ":", "t">>
      [] OTHER        -> <<>>

InitTitle(e) ==
    CASE Shape(e) = 1 -> Some(<<"a", ":", "t">>)
      [] Shape(e) = 2 -> Some(<<"t", "t">>)
      [] OTHER        -> None

InitText(e) ==
    CASE Shape(e) = 1 -> <<"a", ":", "t">>
      [] Shape(e) = 2 -> <<"t", "t">>
      [] Shape(e) = 3 -> <<"t", " ", "a">>
      [] Shape(e) = 4 -> <<"a", "a">>
      [] OTHER        -> <<"t">>

SkipNode == {"TITLE", "LINK", "META", "HEAD", "SCRIPT", "BR", "HR", "STYLE", "MARK"}

\* ------------------------------------------------- generic UI text (tables)
\* uiData.plainReplacements.get(text)
PlainReplacement(text) == IF text = <<"t", "t">> THEN Some(<<"T">>) ELSE None

\* uiData.regexReplacements, in order
RegexReplacements ==
    << [k |-> <<"a", "a">>, v |-> <<"b", "a">>],
       [k |-> <<"b">>, v |-> <<"c">>] >>

\* index of the first occurrence of k in s at or after i, 0 when there is none
RECURSIVE MatchFrom(_, _, _)
MatchFrom(s, k, i) ==
    IF i + Len(k) - 1 > Len(s)
    THEN 0
    ELSE IF SubSeq(s, i, i + Len(k) - 1) = k THEN i ELSE MatchFrom(s, k, i + 1)

\* s.replace(k, v) for a pattern without the g flag
Replace(s, k, v) ==
    LET i == MatchFrom(s, k, 1)
    IN  IF i = 0
        THEN s
        ELSE SubSeq(s, 1, i - 1) \o v \o SubSeq(s, i + Len(k), Len(s))

\* a loop that stops at the first rule that rewrites the text
RECURSIVE ApplyRules_FirstMatch(_, _)
ApplyRules_FirstMatch(repText, n) ==
    IF n > Len(RegexReplacements)
    THEN repText
    ELSE IF Replace(repText, RegexReplacements[n].k, RegexReplacements[n].v) # repText
         THEN Replace(repText, RegexReplacements[n].k, RegexReplacements[n].v)
         ELSE ApplyRules_FirstMatch(repText, n + 1)

\* the loop of translateUiText over regexReplacements, from rule n on
RECURSIVE ApplyRules(_, _)
ApplyRules(repText, n) ==
    IF n > Len(RegexReplacements)
    THEN repText
    ELSE ApplyRules(Replace(repText, RegexReplacements[n].k, RegexReplacements[n].v),
                    n + 1)

\* Syringe.translateUiText: None for undefined.  The two timestamp patterns of
\* lines 335-349 match digits only, and no text of this page holds a digit.
translateUiText(text) ==
    IF PlainReplacement(text) # None
    THEN PlainReplacement(text)
    ELSE IF ApplyRules(text, 1) # text THEN Some(ApplyRules(text, 1)) ELSE None

\* ------------------------------------------- timestamps (lines 335 to 352)
\* A text searched for timestamps is a sequence of tokens: a word, a substring
\* one of the two patterns matches, with its digit groups (form "iso" for
\* YYYY-MM-DD HH:MM, form "long" for DD Month YYYY, HH:MM, whose month is a
\* name and so always one of the twelve), or a relative-duration label.
Word ==
    [k |-> "word", form |-> "", y |-> 0, mo |-> 0, d |-> 0, h |-> 0, mi |-> 0, ago |-> 0]
Stamp(form, y, mo, d, h, mi) ==
    [k |-> "stamp", form |-> form, y |-> y, mo |-> mo, d |-> d, h |-> h, mi |-> mi, ago |-> 0]
Label(n) ==
    [k |-> "label", form |-> "", y |-> 0, mo |-> 0, d |-> 0, h |-> 0, mi |-> 0, ago |-> n]

IsLeap(y) == y % 4 = 0 /\ (y % 100 # 0 \/ y % 400 = 0)

DaysInMonth(y, mo) ==
    IF mo = 2 THEN (IF IsLeap(y) THEN 29 ELSE 28)
    ELSE IF mo \in {4, 6, 9, 11} THEN 30 ELSE 31

\* the days from 1970-01-01 to the day d of month mo of year y
DaysFromCivil(y, mo, d) ==
    LET yy  == IF mo <= 2 THEN y - 1 ELSE y
        era == yy \div 400
        yoe == yy - era * 400
        mp  == IF mo > 2 THEN mo - 3 ELSE mo + 9
        doy == (153 * mp + 2) \div 5 + d - 1
        doe == yoe * 365 + yoe \div 4 - yoe \div 100 + doy
    IN  era * 146097 + doe - 719468

\* Date.parse(t + 'Z') and Date.parse(t + ' UTC'), counted in minutes since
\* the epoch rather than milliseconds; None for NaN.  The texts checked hold no
\* day from 29 to 31, on which engines differ for the shorter months.
DateParse(t) ==
    IF /\ t.mo \in 1..12
       /\ t.d \in 1..DaysInMonth(t.y, t.mo)
       /\ t.h \in 0..23
       /\ t.mi \in 0..59
    THEN Some((DaysFromCivil(t.y, t.mo, t.d) * 24 + t.h) * 60 + t.mi)
    ELSE None

\* !date
Falsy(date) == date = None \/ Get(date) = 0

\* DateTime.diff(date, undefined, DateTime.hour): the label for the whole
\* hours from date to now
diff(date, now) == Label((now - date) \div 60)

\* the replace callbacks of lines 336-340 and 343-347
RewriteStamp(t, now) ==
    IF t.k # "stamp"
    THEN t
    ELSE IF Falsy(DateParse(t)) THEN t ELSE diff(Get(DateParse(t)), now)

\* lines 335 to 352 of translateUiText on a text no table entry applies to:
\* None for undefined
translateTimestamps(text, translateTimestamp, now) ==
    LET repText == IF translateTimestamp # Some(FALSE)
                   THEN [i \in 1..Len(text) |-> RewriteStamp(text[i], now)]
                   ELSE text
    IN  IF repText # text THEN Some(repText) ELSE None

\* ------------------------------------------------------- the engine's heap
\* H = [dom, tags, seen, recs]: the elements, the registry this.tags, how
\* often translateNode was called on each element and on its text, and the
\* childList records the engine's own writes hand to the MutationObserver.
\* Per element: attached (it has a parent in the document), content (the text
\* of its text child), lang, marker (the 'ehs-tag' attribute), title, and the
\* history of its text: ui (the generic pass looked at it) and rendered (it
\* was written from a dictionary).

\* a write of the element's children: innerText = ..., innerHTML = ...
SetContent(H, e, content, lang, obs, fromDict) ==
    [H EXCEPT !.dom[e].content = content,
              !.dom[e].lang = lang,
              !.dom[e].rendered = @ \/ fromDict,
              !.recs = IF obs /\ content # <<>>
                       THEN Append(@, [kind |-> "text", e |-> e])
                       ELSE @]

\* get alive()
alive(H, ref) == H.dom[ref.node].attached

\* innerHTML += value in place of innerHTML = value
Rendering_Append(H, ref, value) ==
    H.dom[ref.node].content \o markImagesAndEmoji(value)

\* a rendering that never keeps the prefix
Rendering_NoPrefix(H, ref, value) == markImagesAndEmoji(value)

\* lines 87-91: the content translate writes for a label, with the prefix of
\* the ORIGINAL text
Rendering(H, ref, value) ==
    IF Len(ref.original) >= 2 /\ ref.original[2] = ":"
    THEN <<ref.original[1], ":">> \o markImagesAndEmoji(value)
    ELSE markImagesAndEmoji(value)

\* the disabled branch setting the lang attribute only
Restore_LangOnly(H, ref, obs) == [H EXCEPT !.dom[ref.node].lang = "en"]

\* lines 76-77: innerText = original, lang = 'en'
Restore(H, ref, obs) == SetContent(H, ref.node, ref.original, "en", obs, FALSE)

\* a translate that puts the original text back when the dictionary misses
translate_RestoreOnMiss(H, ref, tagMap, cfg, obs) ==
    IF ~alive(H, ref)
    THEN [H |-> H, ret |-> TRUE]
    ELSE IF ~cfg.translateTag
    THEN [H |-> Restore(H, ref, obs), ret |-> TRUE]
    ELSE IF tagMap = None \/ Lookup(Get(tagMap), ref.fullKey) = <<>>
    THEN [H |-> Restore(H, ref, obs), ret |-> FALSE]
    ELSE [H |-> SetContent(H, ref.node,
                           Rendering(H, ref, Lookup(Get(tagMap), ref.fullKey)),
                           "cmn-Hans", obs, TRUE),
          ret |-> TRUE]

\* TagNodeRef.translate: [H, ret]
translate(H, ref, tagMap, cfg, obs) ==
    IF ~alive(H, ref)
    THEN [H |-> H, ret |-> TRUE]
    ELSE IF ~cfg.translateTag
    THEN [H |-> Restore(H, ref, obs), ret |-> TRUE]
    ELSE IF tagMap = None
    THEN [H |-> H, ret |-> FALSE]
    ELSE IF Lookup(Get(tagMap), ref.fullKey) = <<>>
    THEN [H |-> H, ret |-> FALSE]
    ELSE [H |-> SetContent(H, ref.node,
                           Rendering(H, ref, Lookup(Get(tagMap), ref.fullKey)),
                           "cmn-Hans", obs, TRUE),
          ret |-> TRUE]

\* parentElement.title: '' without the attribute
TitleOf(el) == IF el.title = None THEN <<>> ELSE Get(el.title)

\* a create that never finds the marker
HasMarker_Never(el) == FALSE

\* parentElement.hasAttribute('ehs-tag')
HasMarker(el) == el.marker # None

\* a create that makes a reference whatever the key
create_EmptyKey(H, e) ==
    IF HasMarker(H.dom[e])
    THEN [res |-> "claimed"]
    ELSE [res |-> "new",
          ref |-> [node |-> e,
                   fullKey |-> FullKeyCandidate(TitleOf(H.dom[e]), ElemId(e)),
                   original |-> H.dom[e].content]]

\* TagNodeRef.create for the text child of e: "claimed" (true), "unclaimed"
\* (false) or "new" with the reference
create(H, e) ==
    IF HasMarker(H.dom[e])
    THEN [res |-> "claimed"]
    ELSE IF FullKeyCandidate(TitleOf(H.dom[e]), ElemId(e)) = <<>>
    THEN [res |-> "unclaimed"]
    ELSE [res |-> "new",
          ref |-> [node |-> e,
                   fullKey |-> FullKeyCandidate(TitleOf(H.dom[e]), ElemId(e)),
                   original |-> H.dom[e].content]]

\* a constructor that leaves the lang attribute alone
Construct_NoLang(H, ref) ==
    [H EXCEPT !.dom[ref.node].marker = Some(ref.original),
              !.dom[ref.node].title = IF @ = None THEN Some(ref.fullKey) ELSE @]

\* the constructor of TagNodeRef
Construct(H, ref) ==
    [H EXCEPT !.dom[ref.node].marker = Some(ref.original),
              !.dom[ref.node].lang = "en",
              !.dom[ref.node].title = IF @ = None THEN Some(ref.fullKey) ELSE @]

\* Syringe.translateTag for the text child of e: [H, handled]
translateTag(H, e, tagMap, cfg, obs) ==
    IF NodeName(e) = "MARK" \/ AutoComplete(e)
    THEN [H |-> H, handled |-> TRUE]
    ELSE IF ~InContainer(e)
    THEN [H |-> H, handled |-> FALSE]
    ELSE LET c == create(H, e)
         IN  CASE c.res = "claimed" ->
                    [H |-> H, handled |-> TRUE]
               [] c.res = "unclaimed" -> [H |-> H, handled |-> FALSE]
               [] OTHER ->
                    LET H1 == translate(Construct(H, c.ref), c.ref, tagMap, cfg, obs).H
                    IN  [H |-> [H1 EXCEPT !.tags = Append(@, c.ref)], handled |-> TRUE]

\* Syringe.translateUi for a text node
translateUiOfText(H, e) ==
    LET translation == translateUiText(H.dom[e].content)
    IN  [H EXCEPT !.dom[e].ui = TRUE,
                  !.dom[e].content = IF translation # None THEN Get(translation) ELSE @]

\* Syringe.translateUi for the element itself: the title of a span or input.
\* The page holds no input, textarea, optgroup, #nb link, p.gpc, #gdd or #gdo4
\* element, so lines 369-428 leave its elements alone.
translateUiOfElem(H, e) ==
    IF NodeName(e) \in {"SPAN", "INPUT"} /\ TitleOf(H.dom[e]) # <<>>
       /\ translateUiText(TitleOf(H.dom[e])) # None
    THEN [H EXCEPT !.dom[e].title = translateUiText(TitleOf(H.dom[e]))]
    ELSE H

\* translateNode running the generic pass whatever translateTag returned
translateNodeText_Both(H0, e, tagMap, cfg, obs) ==
    LET H == [H0 EXCEPT !.seen.text[e] = @ + 1]
    IN  IF NodeName(e) \in SkipNode
    THEN H
    ELSE LET t == translateTag(H, e, tagMap, cfg, obs)
         IN  IF cfg.translateUi THEN translateUiOfText(t.H, e) ELSE t.H

\* Syringe.translateNode for the text child of e; seen counts the calls
translateNodeText(H0, e, tagMap, cfg, obs) ==
    LET H == [H0 EXCEPT !.seen.text[e] = @ + 1]
    IN  IF NodeName(e) \in SkipNode
    THEN H
    ELSE LET t == translateTag(H, e, tagMap, cfg, obs)
         IN  IF ~t.handled /\ cfg.translateUi THEN translateUiOfText(t.H, e) ELSE t.H

\* Syringe.translateNode for the element e (no text node: translateTag is false)
translateNodeElem(H0, e, cfg) ==
    LET H == [H0 EXCEPT !.seen.elem[e] = @ + 1]
    IN  IF NodeName(e) \in SkipNode
    THEN H
    ELSE IF cfg.translateUi THEN translateUiOfElem(H, e) ELSE H

\* a NodeIterator rooted at element e: e, then its text child
IterateElem(H, e, tagMap, cfg, obs) ==
    translateNodeText(translateNodeElem(H, e, cfg), e, tagMap, cfg, obs)

\* a walk that ends before the last element of the body
RECURSIVE WalkFrom_SkipLast(_, _, _, _)
WalkFrom_SkipLast(H, e, tagMap, cfg) ==
    IF e >= NumElems
    THEN H
    ELSE WalkFrom_SkipLast(IF H.dom[e].attached THEN IterateElem(H, e, tagMap, cfg, FALSE) ELSE H,
                           e + 1, tagMap, cfg)

\* the initial walk of Syringe.init over the attached elements from e on
RECURSIVE WalkFrom(_, _, _, _)
WalkFrom(H, e, tagMap, cfg) ==
    IF e > NumElems
    THEN H
    ELSE WalkFrom(IF H.dom[e].attached THEN IterateElem(H, e, tagMap, cfg, FALSE) ELSE H,
                  e + 1, tagMap, cfg)

\* this.tags.filter((t) => t.alive)
RECURSIVE FilterAlive(_, _)
FilterAlive(H, tags) ==
    IF tags = <<>>
    THEN <<>>
    ELSE IF alive(H, Head(tags))
         THEN <<Head(tags)>> \o FilterAlive(H, Tail(tags))
         ELSE FilterAlive(H, Tail(tags))

\* a forEach that ends at the first translate that returns false
RECURSIVE TranslateEach_StopAtFailure(_, _, _, _, _, _)
TranslateEach_StopAtFailure(H, n, tagMap, cfg, obs, failAt) ==
    IF n > Len(H.tags) \/ n = failAt \/ ~translate(H, H.tags[n], tagMap, cfg, obs).ret
    THEN H
    ELSE TranslateEach_StopAtFailure(translate(H, H.tags[n], tagMap, cfg, obs).H,
                                     n + 1, tagMap, cfg, obs, failAt)

\* tags.forEach((t) => t.translate(tagMap)) from entry n on; the translate of
\* entry failAt throws (0: none does)
RECURSIVE TranslateEach(_, _, _, _, _, _)
TranslateEach(H, n, tagMap, cfg, obs, failAt) ==
    IF n > Len(H.tags) \/ n = failAt
    THEN H
    ELSE TranslateEach(translate(H, H.tags[n], tagMap, cfg, obs).H,
                       n + 1, tagMap, cfg, obs, failAt)

\* the dictionary translateTags settles on: the argument, else this.tagMap,
\* else storage.get('databaseMap')
PickTagMap(arg, cur, stored) ==
    IF arg # None THEN arg ELSE IF cur # None THEN cur ELSE stored

\* Syringe.translateTags: the heap after the pass
translateTags(H, tagMap, cfg, obs, failAt) ==
    TranslateEach([H EXCEPT !.tags = FilterAlive(H, H.tags)], 1, tagMap, cfg, obs, failAt)

\* ---------------------------------------------------------------- the state
VARIABLES
    dom,             \* the elements of the page (see the heap above)
    tags,            \* this.tags
    queue,           \* childList records not yet delivered to the observer
    tagMap,          \* this.tagMap
    config,          \* this.config
    body,            \* what setBodyAttrs left on <body>
    phase,           \* "Idle" before the Syringe is constructed, then "Observing"
    documentEnd,     \* this.documentEnd
    configLoad,      \* storage.async.get('config'): "idle", "pending", "done", "failed"
    dbMap,           \* storage 'databaseMap'
    dbSha,           \* storage 'databaseSha'
    updatingTagMap,  \* this.updatingTagMap: 0 (undefined) or the promise's id
    flights,         \* the refreshes suspended at the await of 'get-tag-map'
    provider,        \* the fingerprint the provider currently serves
    last,            \* the last refresh step and its side effects
    events,          \* how many events the environment has raised so far
    visits,          \* the translateNode calls of the last step, and who made them
    walked,          \* what the initial walk found attached and what it visited
    pure,            \* a part checked on its own: a function's input and result,
                     \* or a page of plain elements with its pending records
    aTitle,          \* key derivation alone: parentElement.title
    aId,             \* key derivation alone: parentElement.id
    keyTag           \* key derivation alone: the outcome of TagNodeRef.create

vars == <<dom, tags, queue, tagMap, config, body, phase, documentEnd, configLoad,
          dbMap, dbSha, updatingTagMap, flights, provider, last, events,
          visits, walked, pure, aTitle, aId, keyTag, page>>

keyVars == <<events, aTitle, aId, keyTag, page, pure>>
More == events < MaxEvents
syncVars == <<dbMap, dbSha, updatingTagMap, flights, provider>>

\* no translateNode call yet
NoSeen == [elem |-> [e \in Elems |-> 0], text |-> [e \in Elems |-> 0]]

Heap == [dom |-> dom, tags |-> tags, recs |-> <<>>, seen |-> NoSeen]

NoVisits == [by |-> "none", elem |-> NoSeen.elem, text |-> NoSeen.text]
Visits(by, H) == [by |-> by, elem |-> H.seen.elem, text |-> H.seen.text]
NoWalk == [pre |-> {}, elem |-> {}, text |-> {}]

\* a step that calls translateNode on no node
NoTranslateNode == visits' = NoVisits /\ UNCHANGED walked

NoStep == [op |-> "other", mapWrites |-> 0, shaWrites |-> 0, passes |-> 0]
Step(op, m, s, p) == [op |-> op, mapWrites |-> m, shaWrites |-> s, passes |-> p]

InitElem(e, att) ==
    [attached |-> att, content |-> InitText(e), lang |-> "", marker |-> None,
     title |-> InitTitle(e), ui |-> FALSE, rendered |-> FALSE]

\* The page as the Syringe finds it: injected at document start, with no
\* element in the document yet, or into the loaded page, with all of them;
\* the cache empty or holding the dictionary of fingerprint 1.
InitPage ==
    /\ \E A \in {{}, Elems} : dom = [e \in Elems |-> InitElem(e, e \in A)]
    /\ tags = <<>>
    /\ queue = <<>>
    /\ tagMap = None
    /\ config \in Configs
    /\ body = [lang |-> "", translateTag |-> FALSE]
    /\ phase = "Idle"
    /\ documentEnd = FALSE
    /\ configLoad = "idle"
    /\ \E cached \in BOOLEAN :
          /\ dbMap = IF cached THEN Some(DictOf(1)) ELSE None
          /\ dbSha = IF cached THEN Some(1) ELSE None
    /\ updatingTagMap = 0
    /\ flights = <<>>
    /\ provider = 1
    /\ last = NoStep
    /\ events = 0
    /\ visits = NoVisits
    /\ walked = NoWalk

Init ==
    /\ page = 1
    /\ InitPage
    /\ pure = [kind |-> "none"]
    /\ aTitle = <<>>
    /\ aId = <<>>
    /\ keyTag = [done |-> FALSE]

\* Syringe.setBodyAttrs: lang and the ehs-translate-tag class (the theme,
\* icon and image-level classes depend on options the model does not vary)
setBodyAttrs(cfg) ==
    [lang |-> IF cfg.translateUi THEN "cmn-Hans" ELSE "en",
     translateTag |-> cfg.translateTag]

\* ------------------------------------------------------------ the host page
\* the host's script is running: no record of an engine write is waiting
HostTurn == \A i \in 1..Len(queue) : queue[i].kind = "elem"

\* the engine's next task may start: every record has been delivered
EngineTurn == phase = "Observing" /\ queue = <<>>

HostAdd(e) ==
    /\ phase = "Observing"
    /\ HostTurn
    /\ More
    /\ events' = events + 1
    /\ ~dom[e].attached
    /\ dom' = [dom EXCEPT ![e].attached = TRUE]
    /\ queue' = Append(queue, [kind |-> "elem", e |-> e])
    /\ last' = NoStep
    /\ NoTranslateNode
    /\ UNCHANGED <<tags, tagMap, config, body, phase, documentEnd, configLoad>>
    /\ UNCHANGED <<syncVars, aTitle, aId, keyTag, page, pure>>

HostRemove(e) ==
    /\ phase = "Observing"
    /\ HostTurn
    /\ More
    /\ events' = events + 1
    /\ dom[e].attached
    /\ dom' = [dom EXCEPT ![e].attached = FALSE]
    /\ last' = NoStep
    /\ NoTranslateNode
    /\ UNCHANGED <<tags, queue, tagMap, config, body, phase, documentEnd, configLoad>>
    /\ UNCHANGED <<syncVars, aTitle, aId, keyTag, page, pure>>

\* ------------------------------------------------------- the mutation pump
\* a callback that never walks below the added node
ProcessRecord_Shallow(H, r, cfg, docEnd) ==
    IF r.kind = "elem"
    THEN translateNodeElem(H, r.e, cfg)
    ELSE translateNodeText(H, r.e, tagMap, cfg, TRUE)

\* the observer's callback for one added node: translateNode on it, then,
\* once documentEnd is set, a NodeIterator rooted at it (the root included)
ProcessRecord(H, r, cfg, docEnd) ==
    IF r.kind = "elem"
    THEN LET H1 == translateNodeElem(H, r.e, cfg)
         IN  IF docEnd THEN IterateElem(H1, r.e, tagMap, cfg, TRUE) ELSE H1
    ELSE LET H1 == translateNodeText(H, r.e, tagMap, cfg, TRUE)
         IN  IF docEnd THEN translateNodeText(H1, r.e, tagMap, cfg, TRUE) ELSE H1

RECURSIVE ProcessRecords(_, _, _, _)
ProcessRecords(H, recs, cfg, docEnd) ==
    IF recs = <<>>
    THEN H
    ELSE ProcessRecords(ProcessRecord(H, Head(recs), cfg, docEnd), Tail(recs), cfg, docEnd)

ObserverCallback ==
    /\ phase = "Observing"
    /\ queue # <<>>
    /\ LET H == ProcessRecords(Heap, queue, config, documentEnd)
       IN  /\ dom' = H.dom
           /\ tags' = H.tags
           /\ queue' = H.recs
           /\ visits' = Visits("observer", H)
    /\ last' = NoStep
    /\ UNCHANGED walked
    /\ UNCHANGED <<tagMap, config, body, phase, documentEnd, configLoad>>
    /\ UNCHANGED <<syncVars, keyVars>>

Ready ==
    /\ EngineTurn
    /\ More
    /\ events' = events + 1
    /\ ~documentEnd
    /\ documentEnd' = TRUE
    /\ last' = NoStep
    /\ NoTranslateNode
    /\ UNCHANGED <<dom, tags, queue, tagMap, config, body, phase, configLoad>>
    /\ UNCHANGED <<syncVars, aTitle, aId, keyTag, page, pure>>

\* ------------------------------------------------------ the sync coordinator
\* an updateTagMap without its guard
GuardSet_Never == FALSE

\* line 212: a refresh is taken to be in flight
GuardSet == updatingTagMap # 0

\* an identity for the promise of a new refresh
NewId ==
    CHOOSE i \in 1..(Len(flights) + 2) :
        /\ i # updatingTagMap
        /\ \A j \in 1..Len(flights) : flights[j].id # i
        /\ \A k \in 1..(i - 1) :
              k = updatingTagMap \/ \E j \in 1..Len(flights) : flights[j].id = k

\* lines 235-238: the finally block of the refresh whose promise is id
ClearGuard(id) == IF updatingTagMap = id THEN 0 ELSE updatingTagMap

\* an updateTagMap that asks without a condition
updateTagMap_NoCondition(syncFail) ==
    IF GuardSet
    THEN /\ UNCHANGED <<updatingTagMap, flights>>
         /\ last' = Step("suppressed", 0, 0, 0)
    ELSE IF syncFail
    THEN /\ updatingTagMap' = NewId
         /\ UNCHANGED flights
         /\ last' = Step("syncfail", 0, 0, 0)
    ELSE /\ updatingTagMap' = NewId
         /\ flights' = Append(flights, [id |-> NewId, ifNotMatch |-> None,
                                        stage |-> "requested", map |-> None, sha |-> 0])
         /\ last' = Step("requested", 0, 0, 0)

\* Syringe.updateTagMap up to its first await.  syncFail: storage.get or
\* messaging.emit throws instead of returning, so that catch and finally run
\* before line 241 stores the promise.
updateTagMap(syncFail) ==
    IF GuardSet
    THEN /\ UNCHANGED <<updatingTagMap, flights>>
         /\ last' = Step("suppressed", 0, 0, 0)
    ELSE IF syncFail
    THEN /\ updatingTagMap' = NewId
         /\ UNCHANGED flights
         /\ last' = Step("syncfail", 0, 0, 0)
    ELSE /\ updatingTagMap' = NewId
         /\ flights' = Append(flights, [id |-> NewId, ifNotMatch |-> dbSha,
                                        stage |-> "requested", map |-> None, sha |-> 0])
         /\ last' = Step("requested", 0, 0, 0)

\* the constructor: getAndInitConfig starts the configuration read, init walks
\* the body, starts observing and calls updateTagMap
Activate ==
    /\ phase = "Idle"
    /\ phase' = "Observing"
    /\ configLoad' = "pending"
    /\ body' = setBodyAttrs(config)
    /\ LET H == WalkFrom(Heap, 1, tagMap, config)
       IN  /\ dom' = H.dom
           /\ tags' = H.tags
           /\ visits' = Visits("walk", H)
           /\ walked' = [pre |-> {e \in Elems : dom[e].attached},
                         elem |-> {e \in Elems : H.seen.elem[e] > 0},
                         text |-> {e \in Elems : H.seen.text[e] > 0}]
    /\ \E syncFail \in BOOLEAN : updateTagMap(syncFail)
    /\ UNCHANGED <<queue, tagMap, config, documentEnd, dbMap, dbSha, provider, keyVars>>

\* a listener that drops every notification
TagUpdated_Dropped ==
    /\ EngineTurn
    /\ More
    /\ events' = events + 1
    /\ last' = Step("suppressed", 0, 0, 0)
    /\ NoTranslateNode
    /\ UNCHANGED <<dom, tags, queue, tagMap, config, body, phase, documentEnd, configLoad>>
    /\ UNCHANGED <<syncVars, aTitle, aId, keyTag, page, pure>>

\* messaging.on('tag-updated', ...)
TagUpdated ==
    /\ EngineTurn
    /\ More
    /\ events' = events + 1
    /\ \E syncFail \in BOOLEAN : updateTagMap(syncFail)
    /\ NoTranslateNode
    /\ UNCHANGED <<dom, tags, queue, tagMap, config, body, phase, documentEnd, configLoad>>
    /\ UNCHANGED <<dbMap, dbSha, provider, aTitle, aId, keyTag, page, pure>>

\* the provider's data changes
ProviderPublish ==
    /\ More
    /\ events' = events + 1
    /\ provider' = provider + 1
    /\ last' = NoStep
    /\ NoTranslateNode
    /\ UNCHANGED <<dom, tags, queue, tagMap, config, body, phase, documentEnd, configLoad>>
    /\ UNCHANGED <<dbMap, dbSha, updatingTagMap, flights, aTitle, aId, keyTag, page, pure>>

\* the provider answers 'get-tag-map': no map when ifNotMatch is current
ProviderRespond(i) ==
    /\ flights[i].stage = "requested"
    /\ flights' = [flights EXCEPT
                     ![i].stage = "responded",
                     ![i].sha = provider,
                     ![i].map = IF flights[i].ifNotMatch = Some(provider)
                                THEN None
                                ELSE Some(ProviderData(provider))]
    /\ last' = NoStep
    /\ NoTranslateNode
    /\ UNCHANGED <<dom, tags, queue, tagMap, config, body, phase, documentEnd, configLoad>>
    /\ UNCHANGED <<dbMap, dbSha, updatingTagMap, provider, keyVars>>

\* the request fails
ProviderReject(i) ==
    /\ flights[i].stage = "requested"
    /\ flights' = [flights EXCEPT ![i].stage = "rejected"]
    /\ last' = NoStep
    /\ NoTranslateNode
    /\ UNCHANGED <<dom, tags, queue, tagMap, config, body, phase, documentEnd, configLoad>>
    /\ UNCHANGED <<dbMap, dbSha, updatingTagMap, provider, keyVars>>

RemoveAt(seq, i) == SubSeq(seq, 1, i - 1) \o SubSeq(seq, i + 1, Len(seq))

\* where the continuation of a refresh that received a map may throw:
\* "process" building tagMap (lines 220-223), "translate" in the translate of
\* entry k of translateTags (line 224), "setMap" and "setSha" in the two
\* storage.set calls (lines 225, 226)
FailPoints == {"none", "process", "translate", "setMap", "setSha"}

\* a continuation that writes the fingerprint first and the dictionary after it
Settle_ShaFirst(i, fail, k) ==
    LET f == flights[i]
        hasMap == f.stage = "responded" /\ f.map # None
        names == IF hasMap THEN Some(NamesOf(Get(f.map))) ELSE None
        pass == hasMap /\ fail \in {"none", "translate", "setMap", "setSha"}
        H == IF pass
             THEN translateTags(Heap, PickTagMap(names, tagMap, dbMap), config, TRUE,
                                IF fail = "translate" THEN k ELSE 0)
             ELSE Heap
    IN  /\ EngineTurn
        /\ f.stage # "requested"
        /\ hasMap \/ fail = "none"
        /\ IF fail = "translate"
           THEN k \in 1..Len(FilterAlive(Heap, tags))
           ELSE k = 0
        /\ dom' = H.dom
        /\ tags' = H.tags
        /\ queue' = H.recs
        /\ tagMap' = IF pass THEN PickTagMap(names, tagMap, dbMap) ELSE tagMap
        /\ dbMap' = IF hasMap /\ fail = "none" THEN names ELSE dbMap
        /\ dbSha' = IF hasMap /\ fail \in {"none", "setSha"} THEN Some(f.sha) ELSE dbSha
        /\ updatingTagMap' = ClearGuard(f.id)
        /\ flights' = RemoveAt(flights, i)
        /\ last' = Step(IF f.stage = "rejected" \/ fail # "none" THEN "failed"
                        ELSE IF hasMap THEN "success" ELSE "unchanged",
                        IF hasMap /\ fail = "none" THEN 1 ELSE 0,
                        IF hasMap /\ fail \in {"none", "setSha"} THEN 1 ELSE 0,
                        IF pass THEN 1 ELSE 0)
        /\ NoTranslateNode
        /\ UNCHANGED <<config, body, phase, documentEnd, configLoad, provider, keyVars>>

\* the continuation of updateTagMap after the await, lines 218-239
Settle(i, fail, k) ==
    LET f == flights[i]
        hasMap == f.stage = "responded" /\ f.map # None
        names == IF hasMap THEN Some(NamesOf(Get(f.map))) ELSE None
        pass == hasMap /\ fail \in {"none", "translate", "setMap", "setSha"}
        H == IF pass
             THEN translateTags(Heap, PickTagMap(names, tagMap, dbMap), config, TRUE,
                                IF fail = "translate" THEN k ELSE 0)
             ELSE Heap
    IN  /\ EngineTurn
        /\ f.stage # "requested"
        /\ hasMap \/ fail = "none"
        /\ IF fail = "translate"
           THEN k \in 1..Len(FilterAlive(Heap, tags))
           ELSE k = 0
        /\ dom' = H.dom
        /\ tags' = H.tags
        /\ queue' = H.recs
        /\ tagMap' = IF pass THEN PickTagMap(names, tagMap, dbMap) ELSE tagMap
        /\ dbMap' = IF hasMap /\ fail \in {"none", "setSha"} THEN names ELSE dbMap
        /\ dbSha' = IF hasMap /\ fail = "none" THEN Some(f.sha) ELSE dbSha
        /\ updatingTagMap' = ClearGuard(f.id)
        /\ flights' = RemoveAt(flights, i)
        /\ last' = Step(IF f.stage = "rejected" \/ fail # "none" THEN "failed"
                        ELSE IF hasMap THEN "success" ELSE "unchanged",
                        IF hasMap /\ fail \in {"none", "setSha"} THEN 1 ELSE 0,
                        IF hasMap /\ fail = "none" THEN 1 ELSE 0,
                        IF pass THEN 1 ELSE 0)
        /\ NoTranslateNode
        /\ UNCHANGED <<config, body, phase, documentEnd, configLoad, provider, keyVars>>

\* ---------------------------------------------------------- configuration
\* an updateConfig that stores the configuration and refreshes the body only
updateConfig_NoRender(c) ==
    /\ config' = c
    /\ body' = setBodyAttrs(c)
    /\ queue' = <<>>
    /\ last' = Step("config", 0, 0, 1)
    /\ NoTranslateNode
    /\ UNCHANGED <<dom, tags, tagMap>>

\* Syringe.updateConfig
updateConfig(c) ==
    /\ config' = c
    /\ body' = setBodyAttrs(c)
    /\ LET H == translateTags(Heap, PickTagMap(None, tagMap, dbMap), c, TRUE, 0)
       IN  /\ dom' = H.dom
           /\ tags' = H.tags
           /\ queue' = H.recs
    /\ tagMap' = PickTagMap(None, tagMap, dbMap)
    /\ last' = Step("config", 0, 0, 1)
    /\ NoTranslateNode

\* storage.async.get('config') resolves: getAndInitConfig's then
ConfigLoadResolve(c) ==
    /\ EngineTurn
    /\ configLoad = "pending"
    /\ configLoad' = "done"
    /\ updateConfig(c)
    /\ UNCHANGED <<phase, documentEnd, syncVars, keyVars>>

\* storage.async.get('config') rejects: logged
ConfigLoadFail ==
    /\ EngineTurn
    /\ configLoad = "pending"
    /\ configLoad' = "failed"
    /\ last' = NoStep
    /\ NoTranslateNode
    /\ UNCHANGED <<dom, tags, queue, tagMap, config, body, phase, documentEnd>>
    /\ UNCHANGED <<syncVars, keyVars>>

\* storage.async.on('config', ...): the options were changed
ConfigChanged(c) ==
    /\ EngineTurn
    /\ More
    /\ events' = events + 1
    /\ updateConfig(c)
    /\ UNCHANGED <<phase, documentEnd, configLoad, syncVars, aTitle, aId, keyTag, page, pure>>

\* ------------------------------------------------------- the specification
Next ==
    \/ \E e \in Elems : HostAdd(e)
    \/ \E e \in Elems : HostRemove(e)
    \/ Activate
    \/ ObserverCallback
    \/ Ready
    \/ TagUpdated
    \/ ProviderPublish
    \/ \E i \in 1..Len(flights) : ProviderRespond(i)
    \/ \E i \in 1..Len(flights) : ProviderReject(i)
    \/ \E i \in 1..Len(flights), fail \in FailPoints, k \in 0..NumElems : Settle(i, fail, k)
    \/ \E c \in Configs : ConfigLoadResolve(c)
    \/ ConfigLoadFail
    \/ \E c \in Configs : ConfigChanged(c)

Spec == Init /\ [][Next]_vars

\* the same engine injected into the other pages
InitPages ==
    /\ page \in Pages \ {1}
    /\ InitPage
    /\ pure = [kind |-> "none"]
    /\ aTitle = <<>>
    /\ aId = <<>>
    /\ keyTag = [done |-> FALSE]

SpecPages == InitPages /\ [][Next]_vars

\* ------------------------------------- key derivation taken on its own
InitKey ==
    /\ page = 1
    /\ dom = [e \in Elems |-> InitElem(e, FALSE)]
    /\ tags = <<>>
    /\ queue = <<>>
    /\ tagMap = None
    /\ config = [translateTag |-> TRUE, translateUi |-> TRUE]
    /\ body = [lang |-> "", translateTag |-> FALSE]
    /\ phase = "Idle"
    /\ documentEnd = FALSE
    /\ configLoad = "idle"
    /\ dbMap = None
    /\ dbSha = None
    /\ updatingTagMap = 0
    /\ flights = <<>>
    /\ provider = 1
    /\ last = NoStep
    /\ events = 0
    /\ visits = NoVisits
    /\ walked = NoWalk
    /\ pure = [kind |-> "none"]
    /\ \/ aTitle \in Strs /\ aId = <<>>
       \/ aTitle \in {<<>>, <<"a", ":", "t">>, <<"t", "t">>, <<"a", ":">>} /\ aId \in Strs
    /\ keyTag = [done |-> FALSE]

\* TagNodeRef.create on a text node whose parent has title aTitle and id aId
KeyCreate ==
    /\ ~keyTag.done
    /\ keyTag' = [done |-> TRUE,
                  tag |-> ResolveTag(aTitle, aId),
                  fullKey |-> FullKeyCandidate(aTitle, aId)]
    /\ UNCHANGED <<dom, tags, queue, tagMap, config, body, phase, documentEnd, configLoad>>
    /\ UNCHANGED <<syncVars, last, events, visits, walked, pure, aTitle, aId, page>>

NextKey == KeyCreate

SpecKey == InitKey /\ [][NextKey]_vars

\* ------------------------------------------ translateUiText taken alone
\* the engine not constructed and the page empty
Dormant ==
    /\ page = 1
    /\ dom = [e \in Elems |-> InitElem(e, FALSE)]
    /\ tags = <<>>
    /\ queue = <<>>
    /\ tagMap = None
    /\ config = [translateTag |-> TRUE, translateUi |-> TRUE]
    /\ body = [lang |-> "", translateTag |-> FALSE]
    /\ phase = "Idle"
    /\ documentEnd = FALSE
    /\ configLoad = "idle"
    /\ dbMap = None
    /\ dbSha = None
    /\ updatingTagMap = 0
    /\ flights = <<>>
    /\ provider = 1
    /\ last = NoStep
    /\ events = 0
    /\ visits = NoVisits
    /\ walked = NoWalk
    /\ aTitle = <<>>
    /\ aId = <<>>
    /\ keyTag = [done |-> FALSE]

mainVars == <<dom, tags, queue, tagMap, config, body, phase, documentEnd, configLoad,
              syncVars, last, events, visits, walked, aTitle, aId, keyTag, page>>

\* the substrings the patterns match: well-formed and malformed digit groups
Stamps ==
    {Stamp("iso", y, mo, d, h, mi) :
        y \in {1970, 2024}, mo \in {1, 2, 99}, d \in {1, 2, 99}, h \in {0, 3, 99}, mi \in {0, 99}}
    \cup
    {Stamp("long", y, mo, d, h, mi) :
        y \in {1970, 2024}, mo \in {1, 2}, d \in {1, 2, 99}, h \in {0, 3, 99}, mi \in {0, 99}}

TimeTexts ==
    {<<s>> : s \in Stamps} \cup {<<Word, s, Word>> : s \in Stamps}
    \cup {<<s, Word, Stamp("iso", 2024, 1, 1, 0, 0)>> : s \in Stamps}

\* the current time: 2024-01-01 03:00 UTC, or a day later
Nows == {Get(DateParse(Stamp("iso", 2024, 1, d, 3, 0))) : d \in {1, 2}}

InitTime ==
    /\ Dormant
    /\ pure \in [kind : {"time"}, text : TimeTexts,
                  translateTimestamp : {None, Some(TRUE), Some(FALSE)},
                  now : Nows, done : {FALSE}, out : {None}]

TimeRewrite ==
    /\ pure.kind = "time"
    /\ ~pure.done
    /\ pure' = [pure EXCEPT !.done = TRUE,
                            !.out = translateTimestamps(pure.text, pure.translateTimestamp,
                                                        pure.now)]
    /\ UNCHANGED mainVars

NextTime == TimeRewrite

SpecTime == InitTime /\ [][NextTime]_vars

\* the texts the rule tables are tried on
RuleTexts == UNION {[1..n -> {"a", "b", "t"}] : n \in 0..4}

InitRules ==
    /\ Dormant
    /\ pure \in [kind : {"rules"}, text : RuleTexts, done : {FALSE}, out : {None}]

RulesApply ==
    /\ pure.kind = "rules"
    /\ ~pure.done
    /\ pure' = [pure EXCEPT !.done = TRUE, !.out = translateUiText(pure.text)]
    /\ UNCHANGED mainVars

NextRules == RulesApply

SpecRules == InitRules /\ [][NextRules]_vars

\* ------------------------------- the generic pass on a page of plain elements
\* The elements the host page can hold besides tags: the thumbnail switch
\* (#gdo4 with a .ths.nosel child), the gallery details (#gdd), the page counter
\* (p.gpc), a navigation link (#nb > div > a), and a block holding a style
\* sheet and a page counter inside a mark.  parent 0 is the body.
HostNodes ==
    << [name |-> "DIV", id |-> "gdo4", cls |-> {}, parent |-> 0, text |-> <<>>, made |-> "host"],
       [name |-> "DIV", id |-> "", cls |-> {"ths", "nosel"}, parent |-> 1, text |-> <<"t">>,
        made |-> "host"],
       [name |-> "DIV", id |-> "gdd", cls |-> {}, parent |-> 0, text |-> <<"b">>, made |-> "host"],
       [name |-> "P", id |-> "", cls |-> {"gpc"}, parent |-> 0, text |-> <<"S">>, made |-> "host"],
       [name |-> "DIV", id |-> "nb", cls |-> {}, parent |-> 0, text |-> <<>>, made |-> "host"],
       [name |-> "DIV", id |-> "", cls |-> {}, parent |-> 5, text |-> <<>>, made |-> "host"],
       [name |-> "A", id |-> "", cls |-> {}, parent |-> 6, text |-> <<"a", "a">>, made |-> "host"],
       [name |-> "DIV", id |-> "", cls |-> {}, parent |-> 0, text |-> <<>>, made |-> "host"],
       [name |-> "STYLE", id |-> "", cls |-> {}, parent |-> 8, text |-> <<"a", "a">>,
        made |-> "host"],
       [name |-> "MARK", id |-> "", cls |-> {}, parent |-> 8, text |-> <<"a", "a">>,
        made |-> "host"],
       [name |-> "P", id |-> "", cls |-> {"gpc"}, parent |-> 10, text |-> <<"S">>, made |-> "host"] >>

\* the subtrees the host inserts as a whole, each in document order
Roots == {1, 3, 4, 5, 8}
SubtreeOf(r) ==
    CASE r = 1 -> <<1, 2>>
      [] r = 3 -> <<3>>
      [] r = 4 -> <<4>>
      [] r = 5 -> <<5, 6, 7>>
      [] OTHER -> <<8, 9, 10, 11>>

RECURSIVE OrderOf(_)
OrderOf(rs) ==
    IF rs = {}
    THEN <<>>
    ELSE LET r == CHOOSE x \in rs : \A y \in rs : x <= y
         IN  SubtreeOf(r) \o OrderOf(rs \ {r})

\* statement sequencing: v is computed once and F continues from its value
Once(v, F(_)) == CHOOSE r \in {F(x) : x \in {v}} : TRUE

PosOf(order, n) == CHOOSE i \in 1..Len(order) : order[i] = n
InsertAt(seq, i, x) == SubSeq(seq, 1, i - 1) \o <<x>> \o SubSeq(seq, i, Len(seq))

\* n is root or one of its descendants (everything is within the body, 0)
RECURSIVE Within(_, _, _)
Within(nodes, n, root) ==
    IF n = root
    THEN TRUE
    ELSE IF n = 0 THEN FALSE ELSE Within(nodes, nodes[n].parent, root)

RECURSIVE ConcatText(_, _)
ConcatText(nodes, seq) ==
    IF seq = <<>> THEN <<>> ELSE nodes[Head(seq)].text \o ConcatText(nodes, Tail(seq))

\* node.textContent: the texts of the node and its descendants in document order
textContent(S, n) ==
    ConcatText(S.nodes, SelectSeq(S.order, LAMBDA m : Within(S.nodes, m, n)))

\* the position after the last descendant of n
EndOf(S, n) ==
    LET inside == {i \in 1..Len(S.order) : Within(S.nodes, S.order[i], n)}
    IN  (CHOOSE i \in inside : \A j \in inside : j <= i) + 1

\* a created element put into the document at position i of the document
\* order; the observer, once observing, records it as an added node
Inserted(S, nd, i, obs) ==
    LET new == Len(S.nodes) + 1
    IN  [S EXCEPT !.nodes = Append(@, nd),
                  !.order = InsertAt(@, i, new),
                  !.recs = IF obs THEN Append(@, [kind |-> "elem", n |-> new]) ELSE @,
                  !.step.inserted = @ + 1]

\* element.textContent = t: the children are replaced by one new text node
SetTextContent(S, n, t, obs) ==
    [S EXCEPT !.nodes[n].text = t,
              !.recs = IF obs THEN Append(@, [kind |-> "text", n |-> n]) ELSE @,
              !.step.rewritten = @ + 1]

\* text.replace(/Showing ([\d,]+) - ([\d,]+) of ([\d,]+) images?/, ...)
GpcReplace(t) == IF t = <<"S">> THEN <<"Z">> ELSE t

ShimNode(name, cls, parent, text) ==
    [name |-> name, id |-> "", cls |-> cls, parent |-> parent, text |-> text, made |-> "engine"]

\* a page-counter shim that copies the class of the element it stands in for
GpcShim_Clone(S, n) ==
    ShimNode("P", S.nodes[n].cls, S.nodes[n].parent, GpcReplace(textContent(S, n)))

\* the p created for a p.gpc, className 'gpc-translate'
GpcShim(S, n) ==
    ShimNode("P", {"gpc-translate"}, S.nodes[n].parent, GpcReplace(textContent(S, n)))

\* lines 390-395: the text of a link two levels below #nb
NavLink(S, n, obs) ==
    LET nd == S.nodes[n]
        up == IF nd.parent = 0 THEN 0 ELSE S.nodes[nd.parent].parent
    IN  IF nd.name = "A" /\ up # 0 /\ S.nodes[up].id = "nb"
        THEN Once(translateUiText(textContent(S, n)),
                  LAMBDA t : IF t # None THEN SetTextContent(S, n, Get(t), obs) ELSE S)
        ELSE S

\* lines 397-405: the page counter
Gpc(S, n, obs) ==
    IF S.nodes[n].name = "P" /\ "gpc" \in S.nodes[n].cls
    THEN Inserted(S, GpcShim(S, n), PosOf(S.order, n), obs)
    ELSE S

\* lines 409-414: the gallery details
Gdd(S, n, obs) ==
    IF S.nodes[n].name = "DIV" /\ S.nodes[n].id = "gdd"
    THEN Inserted(S, ShimNode("DIV", {}, n, textContent(S, n)), EndOf(S, n), obs)
    ELSE S

\* lines 417-427: the thumbnail switch
Gdo4(S, n, obs) ==
    LET nd == S.nodes[n]
    IN  IF /\ nd.name = "DIV"
           /\ nd.parent # 0
           /\ S.nodes[nd.parent].id = "gdo4"
           /\ {"ths", "nosel"} \subseteq nd.cls
        THEN Inserted(S, ShimNode("DIV", {"ths"}, nd.parent, textContent(S, n)),
                      PosOf(S.order, n), obs)
        ELSE S

\* Syringe.translateUi for an element of this page
translateUiNode(S, n, obs) ==
    Once(NavLink(S, n, obs),
         LAMBDA S1 : Once(Gpc(S1, n, obs),
                          LAMBDA S2 : Once(Gdd(S2, n, obs),
                                           LAMBDA S3 : Gdo4(S3, n, obs))))

\* a translateNode without the test of lines 275-281
translateNodeOf_NoSkip(S, r, obs) ==
    LET nd == S.nodes[r.n]
    IN  IF r.kind = "elem"
        THEN IF ~S.translateUi THEN S ELSE translateUiNode(S, r.n, obs)
        ELSE IF ~S.translateUi \/ translateUiText(nd.text) = None
             THEN S
             ELSE [S EXCEPT !.nodes[r.n].text = Get(translateUiText(nd.text)),
                            !.step.rewritten = @ + 1]

\* Syringe.translateNode for an element of this page, or for the text node of
\* one: no element is a tag container, so translateTag returns false
translateNodeOf(S, r, obs) ==
    LET nd == S.nodes[r.n]
        parentName == IF nd.parent = 0 THEN "BODY" ELSE S.nodes[nd.parent].name
    IN  IF r.kind = "elem"
        THEN IF nd.name \in SkipNode \/ parentName \in SkipNode \/ ~S.translateUi
             THEN S
             ELSE translateUiNode(S, r.n, obs)
        ELSE IF nd.name \in SkipNode \/ ~S.translateUi \/ translateUiText(nd.text) = None
             THEN S
             ELSE [S EXCEPT !.nodes[r.n].text = Get(translateUiText(nd.text)),
                            !.step.rewritten = @ + 1]

\* the node after cur in a NodeIterator rooted at root, 0 at the end
NextNode(S, root, cur) ==
    LET i == PosOf(S.order, cur)
    IN  IF i < Len(S.order) /\ Within(S.nodes, S.order[i + 1], root)
        THEN S.order[i + 1]
        ELSE 0

\* translateNode for the element cur, then for its text node
VisitNode(S, cur, obs) ==
    Once(translateNodeOf(S, [kind |-> "elem", n |-> cur], obs),
         LAMBDA S1 : IF S1.nodes[cur].text # <<>>
                     THEN translateNodeOf(S1, [kind |-> "text", n |-> cur], obs)
                     ELSE S1)

\* a NodeIterator rooted at root, standing at cur: the iterator is live, so a
\* node inserted after cur is visited and one inserted before it is not
RECURSIVE Iterate(_, _, _, _)
Iterate(S, root, cur, obs) ==
    Once(VisitNode(S, cur, obs),
         LAMBDA S2 : IF NextNode(S2, root, cur) # 0
                     THEN Iterate(S2, root, NextNode(S2, root, cur), obs)
                     ELSE S2)

\* the observer's callback for one added node
ProcessAdded(S, r) ==
    Once(translateNodeOf(S, r, TRUE),
         LAMBDA S1 : IF ~S.documentEnd
                     THEN S1
                     ELSE IF r.kind = "elem"
                          THEN Iterate(S1, r.n, r.n, TRUE)
                          ELSE translateNodeOf(S1, r, TRUE))

RECURSIVE ProcessAllAdded(_, _)
ProcessAllAdded(S, recs) ==
    IF recs = <<>>
    THEN S
    ELSE Once(ProcessAdded(S, Head(recs)), LAMBDA T : ProcessAllAdded(T, Tail(recs)))

\* a record of something the engine itself put into the document
EngineMade(S, r) == r.kind = "text" \/ S.nodes[r.n].made = "engine"

PageStep(op, engineOnly) ==
    [op |-> op, inserted |-> 0, rewritten |-> 0, engineOnly |-> engineOnly]

InitPlain ==
    /\ Dormant
    /\ \E present \in SUBSET Roots, ui \in BOOLEAN :
          pure = [kind |-> "page",
                  nodes |-> HostNodes,
                  order |-> OrderOf(present),
                  recs |-> <<>>,
                  translateUi |-> ui,
                  documentEnd |-> FALSE,
                  phase |-> "Loading",
                  step |-> PageStep("none", FALSE)]

\* Syringe.init: the walk over the body, before the observer is connected
PlainWalk ==
    /\ pure.kind = "page"
    /\ pure.phase = "Loading"
    /\ LET S == [pure EXCEPT !.phase = "Observing", !.step = PageStep("walk", FALSE)]
       IN  pure' = IF S.order = <<>> THEN S ELSE Iterate(S, 0, S.order[1], FALSE)
    /\ UNCHANGED mainVars

\* ready(): documentEnd is set
PlainReady ==
    /\ pure.kind = "page"
    /\ ~pure.documentEnd
    /\ pure' = [pure EXCEPT !.documentEnd = TRUE, !.step = PageStep("ready", FALSE)]
    /\ UNCHANGED mainVars

\* the host page appends one of its subtrees to the body
PlainHostAdd(r) ==
    /\ pure.kind = "page"
    /\ pure.phase = "Observing"
    /\ \A i \in 1..Len(pure.order) : pure.order[i] # r
    /\ pure' = [pure EXCEPT !.order = @ \o SubtreeOf(r),
                            !.recs = Append(@, [kind |-> "elem", n |-> r]),
                            !.step = PageStep("host", FALSE)]
    /\ UNCHANGED mainVars

\* the MutationObserver callback over the pending added nodes
PlainCallback ==
    /\ pure.kind = "page"
    /\ pure.phase = "Observing"
    /\ pure.recs # <<>>
    /\ pure' = ProcessAllAdded(
                   [pure EXCEPT !.recs = <<>>,
                                !.step = PageStep("callback",
                                                  \A i \in 1..Len(pure.recs) :
                                                      EngineMade(pure, pure.recs[i]))],
                   pure.recs)
    /\ UNCHANGED mainVars

NextPlain ==
    \/ PlainWalk
    \/ PlainReady
    \/ \E r \in Roots : PlainHostAdd(r)
    \/ PlainCallback

\* the tag part and the plain part of a page, each from its own initial states
InitCascade == Init \/ InitPlain
NextCascade == (pure.kind = "none" /\ Next) \/ NextPlain
SpecCascade == InitCascade /\ [][NextCascade]_vars

\* ================================================================== claims
Registered(e) == \E i \in 1..Len(tags) : tags[i].node = e

\* C1: at most one dictionary refresh is in flight at any time; a trigger that
\* arrives while the guard is set sends no request, so the refreshes that have
\* not settled never number more than one.
C1_AtMostOneInFlight ==
    /\ Len(flights) <= 1
    /\ last.op = "suppressed" => updatingTagMap # 0
    /\ last.op = "requested" => Len(flights) = 1

\* C1 witness: a trigger arrived while a refresh was pending and sent nothing
C1_Witness == last.op = "suppressed" /\ Len(flights) = 1

\* C2 (as claimed): right after a successful refresh with tag translation
\* enabled, every alive tracked node shows the new dictionary's translation of
\* its key, or its original text when the new dictionary lacks the key.
C2_ReflectsNewDictionary ==
    (last.op = "success" /\ config.translateTag) =>
        \A i \in 1..Len(tags) :
            alive(Heap, tags[i]) =>
                dom[tags[i].node].content =
                    IF Lookup(Get(tagMap), tags[i].fullKey) # <<>>
                    THEN Rendering(Heap, tags[i], Lookup(Get(tagMap), tags[i].fullKey))
                    ELSE tags[i].original

\* C3: the registry never holds two entries for one element, and every
\* entry's element carries the marker with the original text of the claim.
C3_ClaimedOnce ==
    /\ \A i, j \in 1..Len(tags) : i # j => tags[i].node # tags[j].node
    /\ \A i \in 1..Len(tags) : dom[tags[i].node].marker = Some(tags[i].original)

\* C3 witness: a claimed element was rendered while observing and the record
\* of that write has been delivered, so its new text node was visited and
\* found claimed
C3_Witness ==
    \E e \in Elems :
        Registered(e) /\ dom[e].rendered /\ phase = "Observing" /\ queue = <<>>

\* C4: with tag translation disabled, every alive tracked node shows exactly
\* its original text, whatever it was rendered with before.
C4_DisabledShowsOriginal ==
    ~config.translateTag =>
        \A i \in 1..Len(tags) :
            alive(Heap, tags[i]) => dom[tags[i].node].content = tags[i].original

\* C4 witness: an alive tracked node that had been rendered from a dictionary
\* shows its original text again under a configuration that disables tags
C4_Witness ==
    /\ ~config.translateTag
    /\ \E i \in 1..Len(tags) :
          /\ alive(Heap, tags[i])
          /\ dom[tags[i].node].rendered
          /\ dom[tags[i].node].content = tags[i].original

AnyTagMap == {None} \cup {Some(DictOf(v)) : v \in 1..3}

\* C5: translate is idempotent: for every tracked node, dictionary and
\* configuration, a second translate leaves content, lang and the returned
\* boolean as the first one left them.
C5_RenderIdempotent ==
    \A i \in 1..Len(tags), tm \in AnyTagMap, cfg \in Configs :
        LET once == translate(Heap, tags[i], tm, cfg, FALSE)
            twice == translate(once.H, tags[i], tm, cfg, FALSE)
        IN  /\ twice.ret = once.ret
            /\ twice.H.dom[tags[i].node].content = once.H.dom[tags[i].node].content
            /\ twice.H.dom[tags[i].node].lang = once.H.dom[tags[i].node].lang

\* C5 witness: an alive tracked node showing a translation, which a further
\* translate with a dictionary holding its key writes again
C5_Witness ==
    \E i \in 1..Len(tags) :
        /\ alive(Heap, tags[i])
        /\ dom[tags[i].node].lang = "cmn-Hans"
        /\ dom[tags[i].node].content # tags[i].original
        /\ \E tm \in AnyTagMap : tm # None /\ Lookup(Get(tm), tags[i].fullKey) # <<>>

\* C6: no text is handled by both paths: the generic pass never looked at the
\* text of a claimed element, and an element outside every tag container is
\* never claimed nor registered.
C6_TagXorGeneric ==
    \A e \in Elems :
        /\ ~(dom[e].ui /\ HasMarker(dom[e]))
        /\ Registered(e) => ~dom[e].ui
        /\ ~InContainer(e) => (~HasMarker(dom[e]) /\ ~Registered(e))

\* C6 witness: one element claimed as a tag and another, outside the tag
\* containers, rewritten by the generic pass
C6_Witness ==
    \E e1, e2 \in Elems :
        /\ Registered(e1) /\ HasMarker(dom[e1])
        /\ ~InContainer(e2) /\ dom[e2].ui /\ dom[e2].content # InitText(e2)

\* C7 (as claimed): a refresh that fails leaves 'databaseMap' and
\* 'databaseSha' as they were.
C7_FailureLeavesCache ==
    [][last'.op \in {"failed", "syncfail"} => (dbMap' = dbMap /\ dbSha' = dbSha)]_vars

\* C8 (as claimed): the guard is set only while a refresh is pending; once
\* every refresh has settled, however it ended, the guard is clear.
C8_GuardOnlyWhilePending == flights = <<>> => updatingTagMap = 0

\* C9 (as claimed): a successful refresh writes the dictionary and the
\* fingerprint once each and runs one re-translation pass; an unchanged or
\* failed refresh writes nothing and runs no pass.
C9_SideEffects ==
    /\ last.op = "success" =>
          (last.mapWrites = 1 /\ last.shaWrites = 1 /\ last.passes = 1)
    /\ last.op \in {"unchanged", "failed", "syncfail"} =>
          (last.mapWrites = 0 /\ last.shaWrites = 0 /\ last.passes = 0)

\* the one ':' of s, when s holds exactly one
OnlyColon(s, i) == s[i] = ":" /\ \A j \in 1..Len(s) : j # i => s[j] # ":"

\* C10: a title 'ns:key' resolves to {ns, key}; without title, an id 'ta_name'
\* resolves, with the prefix stripped and every underscore a space, to
\* {ns, key} when it reads 'ns:key' and to {'', name} when it holds no colon.
C10_KeyDerivation ==
    keyTag.done =>
        /\ \A i \in 1..Len(aTitle) :
              OnlyColon(aTitle, i) =>
                  keyTag.tag = Some([namespace |-> SubSeq(aTitle, 1, i - 1),
                                     key |-> Some(SubSeq(aTitle, i + 1, Len(aTitle)))])
        /\ (aTitle = <<>> /\ Len(aId) >= 3 /\ SubSeq(aId, 1, 3) = <<"t", "a", "_">>) =>
              LET n == Len(aId) - 3
                  name == [x \in 1..n |-> IF aId[x + 3] = "_" THEN " " ELSE aId[x + 3]]
              IN  /\ \A i \in 1..(n - 1) :
                        OnlyColon(name, i) =>
                            keyTag.tag = Some([namespace |-> SubSeq(name, 1, i - 1),
                                               key |-> Some(SubSeq(name, i + 1, n))])
                  /\ (\A x \in 1..n : name[x] # ":") =>
                        keyTag.tag = Some([namespace |-> <<>>, key |-> Some(name)])

\* C10 witness: the id 'ta_t_a' resolved to the key 't a' of the empty namespace
C10_Witness ==
    /\ keyTag.done
    /\ aTitle = <<>>
    /\ aId = <<"t", "a", "_", "t", "_", "a">>
    /\ keyTag.tag = Some([namespace |-> <<>>, key |-> Some(<<"t", " ", "a">>)])
    /\ keyTag.fullKey = <<"t", " ", "a">>

\* how often the records waiting for the observer add node e as kind
Added(kind, e) ==
    Cardinality({i \in 1..Len(queue) : queue[i].kind = kind /\ queue[i].e = e})

\* C11: no observer callback calls translateNode before the initial walk has
\* completed: nothing is visited before activation, and whenever the observer
\* has visited nodes, the walk has visited every element it found attached
\* and the text of each.
C11_WalkBeforeObserver ==
    /\ phase = "Idle" => visits.by = "none" /\ queue = <<>>
    /\ visits.by = "observer" =>
          /\ phase = "Observing"
          /\ walked.elem = walked.pre
          /\ walked.text = walked.pre

C11_Witness ==
    /\ visits.by = "observer"
    /\ walked.pre = Elems
    /\ \E e \in Elems : visits.elem[e] > 0

\* C12 as stated: whenever the observer is delivered an added element, it
\* visits the element and its text, whether or not documentEnd is set.
C12_DescendantsAlways ==
    [][visits'.by = "observer" =>
          \A e \in Elems :
              Added("elem", e) > 0 => visits'.elem[e] >= 1 /\ visits'.text[e] >= 1]_vars

\* C12, amended: the observer visits every added element; it visits the text
\* below it once documentEnd is set, and before that only when the text was
\* itself delivered as an added node.
C12_DescendantsAfterReady ==
    [][visits'.by = "observer" =>
          \A e \in Elems :
              Added("elem", e) > 0 =>
                  /\ visits'.elem[e] >= 1
                  /\ documentEnd => visits'.text[e] >= 1
                  /\ (~documentEnd /\ Added("text", e) = 0) => visits'.text[e] = 0]_vars

C12_Witness ==
    /\ visits.by = "observer"
    /\ documentEnd
    /\ \E e \in Elems : dom[e].attached /\ visits.elem[e] >= 1 /\ visits.text[e] >= 1

\* C13: the initial walk visits every attached element and its text exactly
\* once and nothing else; the observer visits every added node exactly once
\* per addition, and no node more often than it or its parent was added.
C13_VisitedOncePerAddition ==
    [][/\ visits'.by = "walk" =>
             \A e \in Elems :
                 /\ visits'.elem[e] = IF dom[e].attached THEN 1 ELSE 0
                 /\ visits'.text[e] = IF dom[e].attached THEN 1 ELSE 0
       /\ visits'.by = "observer" =>
             \A e \in Elems :
                 /\ visits'.elem[e] = Added("elem", e)
                 /\ visits'.text[e] <= Added("elem", e) + Added("text", e)]_vars

\* the engine has nothing left to do until the environment raises an event
EngineIdle ==
    /\ phase = "Observing"
    /\ queue = <<>>
    /\ flights = <<>>
    /\ configLoad \in {"done", "failed"}

\* C14: with a dictionary cached at activation and tag translation enabled in
\* the last-known configuration, once the configuration read has failed, the
\* provider has reported the cached fingerprint unchanged and the engine has
\* nothing left to do, every alive registered node whose key is in the cached
\* dictionary shows its translation.
C14_RenderedDespiteConfigFailure ==
    (/\ EngineIdle
     /\ events = 0
     /\ configLoad = "failed"
     /\ last.op = "unchanged"
     /\ config.translateTag
     /\ dbMap # None)
    => \A i \in 1..Len(tags) :
          (alive(Heap, tags[i]) /\ Lookup(Get(dbMap), tags[i].fullKey) # <<>>) =>
              /\ dom[tags[i].node].lang = "cmn-Hans"
              /\ dom[tags[i].node].content =
                    Rendering(Heap, tags[i], Lookup(Get(dbMap), tags[i].fullKey))

\* the text a timestamp pass leaves
TimeOut == IF pure.out = None THEN pure.text ELSE Get(pure.out)

\* C15: with timestamp rewriting enabled every matched substring that denotes
\* a valid instant is replaced by the label for the hours from that instant
\* to the current time; a matched substring that denotes no valid date is
\* left as it is; with timestamp rewriting disabled nothing is rewritten.
C15_TimestampsRewritten ==
    (pure.kind = "time" /\ pure.done) =>
        \A i \in 1..Len(pure.text) :
            LET t == pure.text[i]
            IN  /\ (pure.translateTimestamp = Some(TRUE) /\ t.k = "stamp"
                                                        /\ DateParse(t) # None) =>
                      TimeOut[i] = Label((pure.now - Get(DateParse(t))) \div 60)
                /\ (t.k = "stamp" /\ DateParse(t) = None) => TimeOut[i] = t
                /\ pure.translateTimestamp = Some(FALSE) => TimeOut[i] = t

\* the text translateUiText leaves
RulesOut == IF pure.out = None THEN pure.text ELSE Get(pure.out)

\* the rules that match text
Matching(text) ==
    {n \in 1..Len(RegexReplacements) : MatchFrom(text, RegexReplacements[n].k, 1) # 0}

\* rule n applied to text
RuleOn(n, text) == Replace(text, RegexReplacements[n].k, RegexReplacements[n].v)

\* C16 as stated: without an exact phrase match, the result is the original
\* text rewritten by the first rule that matches it and by no other rule.
C16_FirstMatchOnly ==
    (pure.kind = "rules" /\ pure.done /\ PlainReplacement(pure.text) = None) =>
        IF Matching(pure.text) = {}
        THEN RulesOut = pure.text
        ELSE \E n \in Matching(pure.text) :
                /\ \A m \in Matching(pure.text) : n <= m
                /\ RulesOut = RuleOn(n, pure.text)

\* C16, amended: without an exact phrase match, every rule is applied, in
\* order, to the text the rules before it have left: the result is the second
\* rule applied to the first rule applied to the original text.
C16_RulesChained ==
    (pure.kind = "rules" /\ pure.done /\ PlainReplacement(pure.text) = None) =>
        /\ Len(RegexReplacements) = 2
        /\ RulesOut = RuleOn(2, RuleOn(1, pure.text))

\* the text aa: the first rule gives ba, which the second rule turns into ca
C16_Witness ==
    /\ pure.kind = "rules"
    /\ pure.done
    /\ pure.text = <<"a", "a">>
    /\ Matching(pure.text) = {1}
    /\ pure.out = Some(<<"c", "a">>)

\* what a render of entry r under configuration cfg and dictionary d leaves
\* on its element in the next state
ShownAfter(r, cfg, d) ==
    IF ~cfg.translateTag
    THEN /\ dom'[r.node].content = r.original
         /\ dom'[r.node].lang = "en"
    ELSE IF d # None /\ Lookup(Get(d), r.fullKey) # <<>>
    THEN /\ dom'[r.node].content = Rendering(Heap, r, Lookup(Get(d), r.fullKey))
         /\ dom'[r.node].lang = "cmn-Hans"
    ELSE /\ dom'[r.node].content = dom[r.node].content
         /\ dom'[r.node].lang = dom[r.node].lang

\* the entries of the registry whose node is in the document
AliveEntries == SelectSeq(tags, LAMBDA r : dom[r.node].attached)

\* the dictionary last known to the engine: this.tagMap, else the cached one
LastKnown == IF tagMap # None THEN tagMap ELSE dbMap

\* C17: a configuration change renders every alive registered node under the
\* new configuration with the last-known dictionary and sets the body
\* attributes from the new configuration; it adds no entry to the registry,
\* calls translateNode on no node and leaves every other element as it was.
C17_ConfigChangeFrame ==
    [][last'.op = "config" =>
          /\ body'.translateTag = config'.translateTag
          /\ body'.lang = (IF config'.translateUi THEN "cmn-Hans" ELSE "en")
          /\ tags' = AliveEntries
          /\ visits'.by = "none"
          /\ \A i \in 1..Len(tags') : ShownAfter(tags'[i], config', LastKnown)
          /\ \A e \in Elems :
                /\ dom'[e].marker = dom[e].marker
                /\ dom'[e].title = dom[e].title
                /\ dom'[e].attached = dom[e].attached
                /\ (\A i \in 1..Len(tags') : tags'[i].node # e) =>
                      /\ dom'[e].content = dom[e].content
                      /\ dom'[e].lang = dom[e].lang]_vars

\* a configuration change has just turned tag translation on and rendered a
\* registered node from the dictionary
C17_Witness ==
    /\ last.op = "config"
    /\ config.translateTag
    /\ body.translateTag
    /\ \E i \in 1..Len(tags) :
          /\ dom[tags[i].node].attached
          /\ dom[tags[i].node].lang = "cmn-Hans"
          /\ dom[tags[i].node].content # tags[i].original

\* C18: a re-translation pass leaves in the registry exactly the entries that
\* were alive, in their order, and, unless it throws, renders each of them
\* whatever the render of the others returned; every step that is not such a
\* pass keeps the registry as a prefix of the new one.
C18_OnlyPassesPrune ==
    [][/\ last'.passes > 0 =>
             /\ tags' = AliveEntries
             /\ last'.op # "failed" =>
                   \A i \in 1..Len(tags') : ShownAfter(tags'[i], config', tagMap')
       /\ last'.passes = 0 =>
             /\ Len(tags') >= Len(tags)
             /\ SubSeq(tags', 1, Len(tags)) = tags]_vars

\* a pass has rendered the second entry although the render of the first one
\* failed for want of a dictionary entry
C18_Witness ==
    /\ last.passes > 0
    /\ config.translateTag
    /\ tagMap # None
    /\ Len(tags) >= 2
    /\ Lookup(Get(tagMap), tags[1].fullKey) = <<>>
    /\ dom[tags[1].node].content = tags[1].original
    /\ dom[tags[2].node].lang = "cmn-Hans"
    /\ dom[tags[2].node].content # tags[2].original

\* C19: for every registered node and every dictionary, with tag translation
\* enabled a render of an alive node returns failure and leaves the page as
\* it is when there is no dictionary or the dictionary has no entry for the
\* key; a render of a node that is not alive returns success and leaves the
\* page as it is, under any configuration.
C19_RenderFailureLeavesNode ==
    \A i \in 1..Len(tags), tm \in AnyTagMap, c \in Configs :
        LET r == tags[i]
            res == translate(Heap, r, tm, c, TRUE)
        IN  /\ ~dom[r.node].attached => (res.ret = TRUE /\ res.H = Heap)
            /\ (/\ dom[r.node].attached
                /\ c.translateTag
                /\ (tm = None \/ Lookup(Get(tm), r.fullKey) = <<>>)) =>
                  /\ res.ret = FALSE
                  /\ res.H.dom[r.node].content = dom[r.node].content
                  /\ res.H.dom[r.node].lang = dom[r.node].lang
                  /\ res.H = Heap

\* a pass has just left a rendered node as it was, its key missing from the
\* new dictionary
C19_Witness ==
    /\ last.passes > 0
    /\ config.translateTag
    /\ tagMap # None
    /\ \E i \in 1..Len(tags) :
          /\ dom[tags[i].node].attached
          /\ Lookup(Get(tagMap), tags[i].fullKey) = <<>>
          /\ dom[tags[i].node].lang = "cmn-Hans"
          /\ dom[tags[i].node].content # tags[i].original

\* an element in a tag container whose title and id yield no key
Unresolvable(e) ==
    InContainer(e) /\ FullKeyCandidate(TitleOf(InitElem(e, TRUE)), ElemId(e)) = <<>>

\* C20: an element in a tag container whose title and id yield no key never
\* gets the marker, a lang or a title, and is never registered; once its text
\* has been visited with UI translation enabled, the generic pass has
\* rewritten the text as it rewrites ordinary text.
C20_UnclaimedUntouched ==
    \A e \in Elems :
        Unresolvable(e) =>
            /\ dom[e].marker = None
            /\ dom[e].lang = ""
            /\ dom[e].title = InitTitle(e)
            /\ ~Registered(e)
            /\ (visits.text[e] > 0 /\ config.translateUi) =>
                  /\ dom[e].ui
                  /\ translateUiText(InitText(e)) # None
                  /\ dom[e].content = Get(translateUiText(InitText(e)))

C20_Witness ==
    \E e \in Elems :
        /\ Unresolvable(e)
        /\ dom[e].attached
        /\ visits.text[e] > 0
        /\ config.translateUi
        /\ dom[e].ui
        /\ dom[e].content = <<"c", "a">>

\* C21: the key is the one the title yields and, whenever the title yields
\* none, the one the id yields; the node is unclaimed (an empty key) only if
\* neither yields one.
C21_TitleThenId ==
    keyTag.done =>
        LET titleKey == FullKeyCandidate(aTitle, <<>>)
            idKey == FullKeyCandidate(<<>>, aId)
        IN  keyTag.fullKey = IF titleKey # <<>> THEN titleKey ELSE idKey

\* C22: a request carries the fingerprint the cache holds when it is made,
\* and a refresh that succeeds leaves in the cache the names of the
\* provider's dictionary together with the fingerprint of the response.
C22_ConditionalRequest ==
    [][/\ last'.op = "requested" =>
             /\ Len(flights') = Len(flights) + 1
             /\ flights'[Len(flights')].ifNotMatch = dbSha
       /\ last'.op = "success" =>
             \E i \in 1..Len(flights) :
                 /\ flights' = RemoveAt(flights, i)
                 /\ flights[i].map # None
                 /\ dbSha' = Some(flights[i].sha)
                 /\ dbMap' = Some(DictOf(flights[i].sha))
                 /\ \A k \in DOMAIN Get(flights[i].map) :
                       Get(dbMap')[k] = Get(flights[i].map)[k].name]_vars

\* a request made after a successful refresh carries the fingerprint that
\* refresh stored
C22_Witness ==
    /\ last.op = "requested"
    /\ dbSha = Some(2)
    /\ dbMap = Some(DictOf(2))
    /\ Len(flights) = 1
    /\ flights[1].ifNotMatch = Some(2)

\* the labels some dictionary of the provider gives key
LabelsOf(key) ==
    {Lookup(DictOf(v), key) : v \in 1..(MaxEvents + 2)} \ {<<>>}

\* C23: the content of a registered element written from a dictionary is the
\* processed label, preceded by the first character of the original text and
\* ':' when the second character of the original text is ':', and by
\* nothing otherwise; the original text is the one the page gave the element.
C23_PrefixFromOriginal ==
    \A i \in 1..Len(tags) :
        LET r == tags[i]
            o == InitText(r.node)
        IN  /\ r.original = o
            /\ dom[r.node].lang = "cmn-Hans" =>
                  \E label \in LabelsOf(r.fullKey) :
                      dom[r.node].content =
                          IF Len(o) >= 2 /\ o[2] = ":"
                          THEN <<o[1], ":">> \o markImagesAndEmoji(label)
                          ELSE markImagesAndEmoji(label)

\* one element rendered with its prefix and one rendered without
C23_Witness ==
    \E i, j \in 1..Len(tags) :
        /\ tags[i].original = <<"a", ":", "t">>
        /\ dom[tags[i].node].lang = "cmn-Hans"
        /\ dom[tags[i].node].content = <<"a", ":", "A">>
        /\ tags[j].original = <<"t", " ", "a">>
        /\ dom[tags[j].node].lang = "cmn-Hans"
        /\ dom[tags[j].node].content = <<"B", "I">>

\* the contents a dictionary translation can give the element of entry r
RenderedTexts(r) ==
    {IF Len(r.original) >= 2 /\ r.original[2] = ":"
     THEN <<r.original[1], ":">> \o markImagesAndEmoji(label)
     ELSE markImagesAndEmoji(label) : label \in LabelsOf(r.fullKey)}

\* C24: the element of every registered node has lang 'cmn-Hans' and a
\* content written from a dictionary, or lang 'en' and its original text.
C24_LangMatchesContent ==
    \A i \in 1..Len(tags) :
        LET r == tags[i]
            el == dom[r.node]
        IN  \/ /\ el.lang = "cmn-Hans"
               /\ el.rendered
               /\ el.content \in RenderedTexts(r)
               /\ el.content # r.original
            \/ /\ el.lang = "en"
               /\ el.content = r.original

\* a configuration change that disabled tag translation has put the original
\* text and 'en' back on an element that had been rendered
C24_Witness ==
    /\ last.op = "config"
    /\ ~config.translateTag
    /\ \E i \in 1..Len(tags) :
          /\ dom[tags[i].node].attached
          /\ dom[tags[i].node].rendered
          /\ dom[tags[i].node].lang = "en"
          /\ dom[tags[i].node].content = tags[i].original

\* C25: once the observer has been delivered every record, every element
\* that carries the marker and is attached is in the registry.
C25_MarkedAttachedRegistered ==
    (phase = "Observing" /\ queue = <<>>) =>
        \A e \in Elems : (HasMarker(dom[e]) /\ dom[e].attached) => Registered(e)

\* a step of the 'tag-updated' listener
Notified == phase = "Observing" /\ last'.op \in {"suppressed", "syncfail", "requested"}

BothCompleted ==
    /\ EngineIdle
    /\ configLoad = "done"
    /\ updatingTagMap = 0
    /\ events = provider - 1
    /\ dbSha = Some(provider)
    /\ tagMap = Some(DictOf(provider))

\* C27: once both have completed, in whichever order, every alive registered
\* node shows what the loaded configuration and the refreshed dictionary
\* determine: its original text and 'en' when tag translation is disabled or
\* the dictionary has no entry for its key, the rendered label and 'cmn-Hans'
\* otherwise.
C27_OrderIndependent ==
    BothCompleted =>
        \A i \in 1..Len(tags) :
            LET r == tags[i]
                label == Lookup(DictOf(provider), r.fullKey)
            IN  dom[r.node].attached =>
                    IF config.translateTag /\ label # <<>>
                    THEN /\ dom[r.node].content = Rendering(Heap, r, label)
                         /\ dom[r.node].lang = "cmn-Hans"
                    ELSE /\ dom[r.node].content = r.original
                         /\ dom[r.node].lang = "en"

\* the versions the provider has published so far
Published == 1..provider

\* C28: the persisted fingerprint never identifies a dictionary newer than the
\* persisted dictionary: whenever a fingerprint is stored, a dictionary is
\* stored too and it is the dictionary of that version or of a later one.
C28_ShaNotNewer ==
    dbSha # None =>
        /\ dbMap # None
        /\ \E v \in Published :
               /\ v >= Get(dbSha)
               /\ Get(dbMap) = NamesOf(ProviderData(v))

\* C28: a dictionary write succeeded and the fingerprint write that follows it
\* failed: the cache holds the new dictionary under the old fingerprint
C28_Witness ==
    /\ last.op = "failed"
    /\ last.mapWrites = 1
    /\ last.shaWrites = 0
    /\ dbSha = Some(1)
    /\ dbMap = Some(NamesOf(ProviderData(2)))

\* C29: the engine's own writes never cascade.  A callback leaves behind only
\* records of what the engine itself wrote, at most two for every record it
\* processed; and a callback that processes nothing but such records inserts
\* no element, renders no tag and leaves no record, so the engine is at rest
\* until the host page, the dictionary or the configuration changes something.
C29_NoCascade ==
    [][ /\ (pure.kind = "page" /\ pure'.step.op = "callback") =>
             /\ \A i \in 1..Len(pure'.recs) : EngineMade(pure', pure'.recs[i])
             /\ Len(pure'.recs) <= 2 * Len(pure.recs)
             /\ pure'.step.engineOnly =>
                    /\ pure'.recs = <<>>
                    /\ pure'.step.inserted = 0
                    /\ pure'.order = pure.order
        /\ (pure.kind = "none" /\ visits'.by = "observer") =>
             /\ \A i \in 1..Len(queue') :
                    queue'[i].kind = "text" /\ HasMarker(dom'[queue'[i].e])
             /\ Len(queue') <= Len(queue)
             /\ (\A i \in 1..Len(queue) : queue[i].kind = "text") =>
                    /\ queue' = <<>>
                    /\ tags' = tags
                    /\ \A e \in Elems : dom'[e].content = dom[e].content
      ]_vars

\* C29: three shims or more are in the document and the navigation link has
\* been rewritten; the callback over the engine's own records has run after
\* documentEnd, inserted nothing and left no record
C29_Witness ==
    /\ pure.kind = "page"
    /\ pure.step.op = "callback"
    /\ pure.step.engineOnly
    /\ pure.recs = <<>>
    /\ pure.documentEnd
    /\ Len(pure.nodes) >= Len(HostNodes) + 3
    /\ pure.nodes[7].text # HostNodes[7].text

\* C29: a rendered tag's own record has been processed and nothing followed
C29_WitnessTag ==
    /\ pure.kind = "none"
    /\ visits.by = "observer"
    /\ queue = <<>>
    /\ \E e \in Elems : dom[e].rendered /\ dom[e].attached /\ visits.text[e] > 0

\* the attached elements whose name, or whose parent's name, is in the skip set
SkippedElems(S) ==
    {n \in 1..Len(S.nodes) :
        /\ \E i \in 1..Len(S.order) : S.order[i] = n
        /\ \/ S.nodes[n].name \in SkipNode
           \/ S.nodes[n].parent # 0 /\ S.nodes[S.nodes[n].parent].name \in SkipNode}

\* C30: translateNode changes nothing when the visited node's name or its
\* parent's name is in the skip set: called on such an element, or on the text
\* node of an element named in the skip set, it returns the page as it was;
\* and whatever walk or callback has run, these nodes are as the host made
\* them and the engine has inserted nothing under a skipped parent.
C30_SkipFrame ==
    pure.kind = "page" =>
        /\ \A n \in SkippedElems(pure), obs \in BOOLEAN :
               /\ translateNodeOf(pure, [kind |-> "elem", n |-> n], obs) = pure
               /\ pure.nodes[n].name \in SkipNode =>
                      translateNodeOf(pure, [kind |-> "text", n |-> n], obs) = pure
               /\ pure.nodes[n].name \in SkipNode => pure.nodes[n] = HostNodes[n]
        /\ \A m \in 1..Len(pure.nodes) :
               (pure.nodes[m].made = "engine" /\ pure.nodes[m].parent # 0) =>
                   pure.nodes[pure.nodes[m].parent].name \notin SkipNode

\* C30: with the generic pass enabled, a style sheet whose text the rules
\* would rewrite and a page counter inside a mark have been visited after
\* documentEnd, and neither was touched
C30_Witness ==
    /\ pure.kind = "page"
    /\ pure.translateUi
    /\ pure.documentEnd
    /\ pure.step.op = "callback"
    /\ pure.order = SubtreeOf(8)
    /\ SkippedElems(pure) = {9, 10, 11}
    /\ translateUiText(pure.nodes[9].text) # None
    /\ Len(pure.nodes) = Len(HostNodes)

====
